---- MODULE Spec2Model ----
(***************************************************************************)
(* Model of the resumable subscription transfer (main, writeStatusesToFile *)
(* and mySubscriptions): the importStatus.gob checkpoint, the in-memory    *)
(* channelStatuses slice, the source and target accounts, and the position *)
(* of the process inside main.                                             *)
(***************************************************************************)
EXTENDS Integers, Sequences, FiniteSets, TLC

\* ---------------------------------------------------------------- bounds
\* channel identifiers are 1..MaxChannels
MaxChannels == 3
\* environment failures (file I/O, source listing) injected per behaviour
MaxFaults == 1
\* subscribe/unsubscribe operations the user makes on the source account
MaxSourceChanges == 1
\* subscriptions per page of the listing
PageSize == 2

Channels == 1..MaxChannels

\* ------------------------------------------------------------- variables
VARIABLES
    pc,               \* position of the process in main
    file,             \* importStatus.gob
    source,           \* subscriptions of the source account, in listing order
    target,           \* channels the target account is subscribed to
    channelStatuses,  \* main's slice of ChannelImportStatus
    index,            \* loop index of the range loop (1-based)
    halted,           \* the loop was left through break (quota exceeded)
    decodeErr,        \* the error returned by decoder.Decode (dropped by main)
    fresh,            \* this run took the "file doesn't exist" branch
    fetchErr,         \* the error returned by mySubscriptions in this run
    calls,            \* Insert requests issued by this run, with their outcome
    startStatuses,    \* channelStatuses when this run entered the loop
    startTarget,      \* the target account when this run entered the loop
    lastWrite,        \* the last writeStatusesToFile call of this run
    saved,            \* argument of the last write that succeeded
    snapshot,         \* the source listing the transfer was built from
    everImported,     \* identifiers that have been Imported in channelStatuses
    ckptImported,     \* identifiers that have been Imported in a written checkpoint
    reported,         \* a write error of this run was shown to the user
    granted,          \* channels whose insert was answered success or duplicate
    prev,             \* how the previous run ended, kept up to this run's first insert
    faults,           \* environment failures so far
    changes           \* source account changes so far

vars == <<pc, file, source, target, channelStatuses, index, halted, decodeErr,
          fresh, fetchErr, calls, startStatuses, startTarget, lastWrite, saved,
          snapshot, everImported, ckptImported, reported, granted, prev,
          faults, changes>>

\* ----------------------------------------------------------- data model
\* ChannelImportStatus{channel, false}
ChannelImportStatus(channel, imported) ==
    [Channel |-> channel, Imported |-> imported]

\* the zero value of ChannelImportStatus (nil Channel, false)
ZeroStatus == [Channel |-> 0, Imported |-> FALSE]

Range(s) == {s[i] : i \in DOMAIN s}

\* sequence of the channel identifiers of a slice of statuses
Ids(s) == [i \in DOMAIN s |-> s[i].Channel]

ImportedIds(s) == {s[i].Channel : i \in {j \in DOMAIN s : s[j].Imported}}

PendingIds(s) == {s[i].Channel : i \in {j \in DOMAIN s : ~s[j].Imported}}

\* ------------------------------------------------------------------ gob
\* variant: Imported is not transmitted at all (an unexported field)
GobStructLosesFlag(e) == [f \in {"Channel"} |-> e[f]]

\* gob sends a struct as its non-zero fields only: a false Imported is
\* not transmitted.
GobStruct(e) ==
    [f \in ({"Channel"} \cup (IF e.Imported THEN {"Imported"} ELSE {})) |-> e[f]]

\* encoder.Encode(channelStatuses): the type definition message, then the
\* value message (element count and the elements).
GobEncode(s) ==
    << "typedef", [n |-> Len(s), elems |-> [i \in 1..Len(s) |-> GobStruct(s[i])]] >>

\* a stream that holds both messages decodes; a truncated one does not
GobComplete(data) == Len(data) = 2

\* variant: the transmitted Imported field is not stored
GobDecodeElemKeepsFlag(base, enc) ==
    [f \in {"Channel", "Imported"} |->
        IF f = "Channel" /\ f \in DOMAIN enc THEN enc[f] ELSE base[f]]

\* one decoded element: the transmitted fields, the others as base had them
GobDecodeElem(base, enc) ==
    [f \in {"Channel", "Imported"} |-> IF f \in DOMAIN enc THEN enc[f] ELSE base[f]]

\* decoder.Decode(&dst): on a truncated stream an error and dst untouched;
\* otherwise dst gets the transmitted length, every element keeps what dst
\* held at that position (the zero value beyond its length) except for the
\* transmitted fields.
GobDecode(data, dst) ==
    IF ~GobComplete(data)
    THEN [err |-> TRUE, value |-> dst]
    ELSE [err |-> FALSE,
          value |-> [i \in 1..data[2].n |->
                        GobDecodeElem(IF i \in DOMAIN dst THEN dst[i] ELSE ZeroStatus,
                                      data[2].elems[i])]]

\* ----------------------------------------------------------------- file
NoFile == [exists |-> FALSE, data |-> <<>>]

\* outcomes of the file operations of writeStatusesToFile:
\* "ok", os.Create fails, Encode fails after 0 or 1 messages reached the file
IoOutcomes == {"ok", "create", "encode0", "encode1"}

IoWritten(io) == IF io = "encode1" THEN 1 ELSE 0

\* variant: the file is created and closed without the Encode call
writeStatusesNoEncode(statuses, io, old) ==
    IF io = "create"
    THEN [file |-> old, err |-> TRUE]
    ELSE [file |-> [exists |-> TRUE, data |-> <<>>], err |-> io # "ok"]

\* writeStatusesToFile(channelStatuses): os.Create truncates the file, then
\* Encode writes the stream; returns the new file and the error.
writeStatusesToFile(statuses, io, old) ==
    IF io = "create"
    THEN [file |-> old, err |-> TRUE]
    ELSE IF io = "ok"
    THEN [file |-> [exists |-> TRUE, data |-> GobEncode(statuses)], err |-> FALSE]
    ELSE [file |-> [exists |-> TRUE,
                    data |-> SubSeq(GobEncode(statuses), 1, IoWritten(io))],
          err |-> TRUE]

\* ------------------------------------------------------------- the loop
\* results of targetService.Subscriptions.Insert(...).Do()
InsertOutcomes == {"success", "subscriptionDuplicate", "quotaExceeded", "other"}

\* what the target account can answer for a channel
Answers(channel) ==
    IF channel \in target
    THEN {"subscriptionDuplicate", "quotaExceeded", "other"}
    ELSE {"success", "quotaExceeded", "other"}

\* variant: the Imported check is missing
SkipsNothing(channelStatus) == FALSE

\* if channelStatus.Imported { continue }
Skips(channelStatus) == channelStatus.Imported

\* variant: a successful insert updates the loop copy, not the slice
MarksImportedOnDuplicateOnly(outcome) == outcome = "subscriptionDuplicate"

\* variant: the last branch sets Imported too
MarksImportedUnlessQuota(outcome) == outcome # "quotaExceeded"

\* variant: the subscriptionDuplicate branch does not set Imported
MarksImportedOnSuccessOnly(outcome) == outcome = "success"

\* variant: the quotaExceeded branch sets Imported before it breaks
MarksImportedAlsoOnQuota(outcome) ==
    outcome \in {"success", "subscriptionDuplicate", "quotaExceeded"}

\* channelStatuses[index].Imported after the response
MarksImported(outcome) == outcome \in {"success", "subscriptionDuplicate"}

\* variant: the quotaExceeded branch falls through instead of breaking
BreaksNever(outcome) == FALSE

\* the break of the quotaExceeded branch
Breaks(outcome) == outcome = "quotaExceeded"

\* pc on entering / continuing the range loop over statuses at position i
LoopPc(statuses, i) == IF i <= Len(statuses) THEN "loop" ELSE "save"

\* variant: the last branch stays on the element and sends its insert again
NextIndexRetries(i, outcome) ==
    IF outcome \in {"quotaExceeded", "other"} THEN i ELSE i + 1

\* the loop index after the response: break leaves it, otherwise the range
\* loop moves to the next element
NextIndex(i, outcome) == IF Breaks(outcome) THEN i ELSE i + 1

\* variant: the panic(err) of the last branch is not commented out
InsertPcPanics(outcome, statuses, i) ==
    IF outcome = "quotaExceeded" THEN "save"
    ELSE IF outcome = "other" THEN "panic"
    ELSE IF i <= Len(statuses) THEN "loop" ELSE "save"

\* pc after the response: break goes to the final write, every other
\* branch (the panic of the last one is commented out) goes on with the loop
InsertPc(outcome, statuses, i) ==
    IF Breaks(outcome) THEN "save" ELSE LoopPc(statuses, i)

Outcome == IF halted THEN "HaltedOnQuota" ELSE "Completed"

\* exit status of the process: return from main, log.Fatalf, panic;
\* -1 while it runs or when it was terminated
ExitCode ==
    CASE pc = "done" -> 0
      [] pc = "fatal" -> 1
      [] pc = "panic" -> 2
      [] OTHER -> -1

NoWrite == [n |-> 0, arg |-> <<>>, err |-> FALSE]
NoSnapshot == [set |-> FALSE, ids |-> <<>>, written |-> FALSE]
NoPrev == [halted |-> FALSE, other |-> {}]

\* ---------------------------------------------------------------- init
Prefix(n) == [i \in 1..n |-> i]

Init ==
    /\ pc = "init"
    /\ file = NoFile
    /\ source \in {Prefix(n) : n \in 0..MaxChannels}
    /\ target \in SUBSET Channels
    /\ channelStatuses = <<>>
    /\ index = 1
    /\ halted = FALSE
    /\ decodeErr = FALSE
    /\ fresh = FALSE
    /\ fetchErr = FALSE
    /\ calls = <<>>
    /\ startStatuses = <<>>
    /\ startTarget = {}
    /\ lastWrite = NoWrite
    /\ saved = <<>>
    /\ snapshot = NoSnapshot
    /\ everImported = {}
    /\ ckptImported = {}
    /\ reported = FALSE
    /\ granted = {}
    /\ prev = NoPrev
    /\ faults = 0
    /\ changes = 0

\* bookkeeping of a writeStatusesToFile call
Written(statuses, res) ==
    /\ file' = res.file
    /\ lastWrite' = [n |-> lastWrite.n + 1, arg |-> statuses, err |-> res.err]
    /\ saved' = IF res.err THEN saved ELSE statuses
    /\ ckptImported' = IF res.err THEN ckptImported
                       ELSE ckptImported \cup ImportedIds(statuses)

IoChoice(io) ==
    /\ io \in IoOutcomes
    /\ io # "ok" => faults < MaxFaults
    /\ faults' = IF io = "ok" THEN faults ELSE faults + 1

\* -------------------------------------------------------------- actions
\* pc after client_secret.json was read and the two services were built
SetupPc(err) == IF err THEN "fatal" ELSE "open"

\* channels whose insert was answered with an error other than duplicate
\* and quotaExceeded in this run
OtherIds ==
    {channelStatuses[calls[j].index].Channel :
        j \in {k \in DOMAIN calls : calls[k].outcome = "other"}}

\* the program is invoked: main up to channelStatuses := make(..., 0)
MainStart ==
    /\ pc \in {"init", "done", "fatal", "panic", "killed"}
    /\ \E err \in BOOLEAN :
        /\ err => faults < MaxFaults
        /\ faults' = IF err THEN faults + 1 ELSE faults
        /\ pc' = SetupPc(err)
    /\ prev' = IF pc = "done" THEN [halted |-> halted, other |-> OtherIds]
               ELSE NoPrev
    /\ reported' = FALSE
    /\ channelStatuses' = <<>>
    /\ index' = 1
    /\ halted' = FALSE
    /\ decodeErr' = FALSE
    /\ fresh' = FALSE
    /\ fetchErr' = FALSE
    /\ calls' = <<>>
    /\ startStatuses' = <<>>
    /\ startTarget' = {}
    /\ lastWrite' = NoWrite
    /\ UNCHANGED <<file, source, target, saved, snapshot, everImported,
                   ckptImported, granted, changes>>

\* os.Open succeeded: decoder.Decode(&channelStatuses), its error dropped
MainDecode ==
    /\ pc = "open"
    /\ file.exists
    /\ LET d == GobDecode(file.data, channelStatuses) IN
        /\ channelStatuses' = d.value
        /\ decodeErr' = d.err
        /\ startStatuses' = d.value
        /\ everImported' = everImported \cup ImportedIds(d.value)
        /\ pc' = LoopPc(d.value, 1)
    /\ startTarget' = target
    /\ UNCHANGED <<file, source, target, index, halted, fresh, fetchErr, calls,
                   lastWrite, saved, snapshot, ckptImported, reported, granted,
                   prev, faults, changes>>

\* variant: the listing error is not checked
FetchPcUnchecked(err) == "write"

\* pc after mySubscriptions returned
FetchPc(err) == IF err THEN "fatal" ELSE "write"

\* the pages the service answers for a listing of subs, in server order
ListPages(subs) ==
    [p \in 1..((Len(subs) + PageSize - 1) \div PageSize) |->
        SubSeq(subs, (p - 1) * PageSize + 1,
               IF p * PageSize < Len(subs) THEN p * PageSize ELSE Len(subs))]

\* channels after the callback of call.Pages ran on the first n pages:
\* channels = append(channels, slr.Items...)
RECURSIVE AppendPages(_, _)
AppendPages(pages, n) ==
    IF n = 0 THEN <<>> ELSE AppendPages(pages, n - 1) \o pages[n]

\* mySubscriptions: every page of the listing appended to channels
mySubscriptions(subs) == AppendPages(ListPages(subs), Len(ListPages(subs)))

\* os.Open failed: mySubscriptions, then one Pending status per channel
MainFetch ==
    /\ pc = "open"
    /\ ~file.exists
    /\ fresh' = TRUE
    /\ prev' = NoPrev
    /\ \E err \in BOOLEAN :
        /\ err => faults < MaxFaults
        /\ faults' = IF err THEN faults + 1 ELSE faults
        /\ fetchErr' = err
        /\ pc' = FetchPc(err)
        /\ channelStatuses' =
             IF err THEN channelStatuses
             ELSE [i \in DOMAIN mySubscriptions(source) |->
                      ChannelImportStatus(mySubscriptions(source)[i], FALSE)]
        /\ snapshot' = IF err THEN snapshot
                       ELSE [set |-> TRUE, ids |-> mySubscriptions(source),
                             written |-> FALSE]
    /\ UNCHANGED <<file, source, target, index, halted, decodeErr, calls,
                   startStatuses, startTarget, lastWrite, saved, everImported,
                   ckptImported, reported, granted, changes>>

\* if err := writeStatusesToFile(channelStatuses); err != nil { panic(err) }
MainWriteNew ==
    /\ pc = "write"
    /\ \E io \in IoOutcomes :
        /\ IoChoice(io)
        /\ LET res == writeStatusesToFile(channelStatuses, io, file) IN
            /\ Written(channelStatuses, res)
            /\ snapshot' = [snapshot EXCEPT !.written = ~res.err]
            /\ reported' = res.err
            /\ pc' = IF res.err THEN "panic" ELSE LoopPc(channelStatuses, 1)
    /\ startStatuses' = channelStatuses
    /\ startTarget' = target
    /\ UNCHANGED <<source, target, channelStatuses, index, halted, decodeErr,
                   fresh, fetchErr, calls, everImported, granted, prev, changes>>

\* one iteration of the range loop over channelStatuses
MainImport ==
    /\ pc = "loop"
    /\ prev' = IF calls = <<>> THEN prev ELSE NoPrev
    /\ LET channelStatus == channelStatuses[index] IN
        IF Skips(channelStatus)
        THEN /\ index' = index + 1
             /\ pc' = LoopPc(channelStatuses, index + 1)
             /\ UNCHANGED <<channelStatuses, target, halted, calls, everImported,
                            granted>>
        ELSE \E outcome \in Answers(channelStatus.Channel) :
             /\ calls' = Append(calls, [index |-> index, outcome |-> outcome])
             /\ target' = IF outcome = "success"
                          THEN target \cup {channelStatus.Channel} ELSE target
             /\ channelStatuses' =
                  IF MarksImported(outcome)
                  THEN [channelStatuses EXCEPT ![index].Imported = TRUE]
                  ELSE channelStatuses
             /\ everImported' = everImported \cup ImportedIds(channelStatuses')
             /\ granted' = IF outcome \in {"success", "subscriptionDuplicate"}
                           THEN granted \cup {channelStatus.Channel} ELSE granted
             /\ halted' = Breaks(outcome)
             /\ index' = NextIndex(index, outcome)
             /\ pc' = InsertPc(outcome, channelStatuses, NextIndex(index, outcome))
    /\ UNCHANGED <<file, source, decodeErr, fresh, fetchErr, startStatuses,
                   startTarget, lastWrite, saved, snapshot, ckptImported, reported,
                   faults, changes>>

\* writeStatusesToFile(channelStatuses) after the loop, its error dropped
MainWriteFinal ==
    /\ pc = "save"
    /\ \E io \in IoOutcomes :
        /\ IoChoice(io)
        /\ Written(channelStatuses, writeStatusesToFile(channelStatuses, io, file))
    /\ pc' = "done"
    /\ prev' = NoPrev
    /\ UNCHANGED <<source, target, channelStatuses, index, halted, decodeErr,
                   fresh, fetchErr, calls, startStatuses, startTarget, snapshot,
                   everImported, reported, granted, changes>>

\* the user subscribes the source account to one more channel
SourceSubscribe ==
    /\ changes < MaxSourceChanges
    /\ \E c \in Channels \ Range(source) : source' = Append(source, c)
    /\ changes' = changes + 1
    /\ UNCHANGED <<pc, file, target, channelStatuses, index, halted, decodeErr,
                   fresh, fetchErr, calls, startStatuses, startTarget, lastWrite,
                   saved, snapshot, everImported, ckptImported, reported, granted,
                   prev, faults>>

\* the user unsubscribes the source account from a channel
SourceUnsubscribe ==
    /\ changes < MaxSourceChanges
    /\ \E i \in DOMAIN source :
         source' = [j \in 1..(Len(source) - 1) |->
                       IF j < i THEN source[j] ELSE source[j + 1]]
    /\ changes' = changes + 1
    /\ UNCHANGED <<pc, file, target, channelStatuses, index, halted, decodeErr,
                   fresh, fetchErr, calls, startStatuses, startTarget, lastWrite,
                   saved, snapshot, everImported, ckptImported, reported, granted,
                   prev, faults>>

\* the process is terminated from outside while main is running
Crash ==
    /\ pc \in {"open", "write", "loop", "save"}
    /\ faults < MaxFaults
    /\ faults' = faults + 1
    /\ pc' = "killed"
    /\ UNCHANGED <<file, source, target, channelStatuses, index, halted,
                   decodeErr, fresh, fetchErr, calls, startStatuses, startTarget,
                   lastWrite, saved, snapshot, everImported, ckptImported,
                   reported, granted, prev, changes>>

Next ==
    \/ MainStart
    \/ MainDecode
    \/ MainFetch
    \/ MainWriteNew
    \/ MainImport
    \/ MainWriteFinal
    \/ SourceSubscribe
    \/ SourceUnsubscribe
    \/ Crash

Spec == Init /\ [][Next]_vars

\* an insert request is answered with success or subscriptionDuplicate
InsertGranted ==
    /\ MainImport
    /\ Len(calls') > Len(calls)
    /\ MarksImported(calls'[Len(calls')].outcome)

\* the program is invoked again and again, every step of main is taken, and
\* an insert that is asked again and again is eventually granted
LiveSpec ==
    /\ Init /\ [][Next]_vars
    /\ WF_vars(MainStart)
    /\ WF_vars(MainDecode)
    /\ WF_vars(MainFetch)
    /\ WF_vars(MainWriteNew)
    /\ WF_vars(MainImport)
    /\ WF_vars(MainWriteFinal)
    /\ SF_vars(InsertGranted)

\* ------------------------------------------------------------ properties
\* the run is over the loop: "after the run"
AfterLoop == pc \in {"save", "done"}

\* the persisted checkpoint as a load reads it
CheckpointStatuses ==
    IF file.exists THEN GobDecode(file.data, <<>>).value ELSE <<>>

\* the plan had only Pending items, the first k inserts succeeded and the
\* next one reported quotaExceeded
QuotaAfter(k) ==
    /\ ImportedIds(startStatuses) = {}
    /\ Len(calls) = k + 1
    /\ \A j \in 1..k : calls[j].outcome = "success"
    /\ calls[k + 1].outcome = "quotaExceeded"

\* C1 - quota halt preserves progress: with a plan of N Pending items, k
\* successful inserts and then quotaExceeded, after the run items 1..k are
\* Imported, items k+1..N are Pending and the outcome is HaltedOnQuota.
C1_QuotaHaltPreservesProgress ==
    AfterLoop =>
        \A k \in 0..(Len(startStatuses) - 1) :
            QuotaAfter(k) =>
                /\ Ids(channelStatuses) = Ids(startStatuses)
                /\ \A i \in 1..k : channelStatuses[i].Imported
                /\ \A i \in (k + 1)..Len(channelStatuses) : ~channelStatuses[i].Imported
                /\ Outcome = "HaltedOnQuota"

C1_Witness ==
    /\ pc = "done"
    /\ Len(startStatuses) = 3
    /\ QuotaAfter(1)

\* C2 (as stated) - an item that was Imported in channelStatuses or in the
\* checkpoint is never Pending at any later point.
C2_NoRegressionAsStated ==
    /\ \A c \in everImported : c \notin PendingIds(channelStatuses)
    /\ \A c \in ckptImported :
        /\ c \notin PendingIds(channelStatuses)
        /\ c \notin PendingIds(CheckpointStatuses)

\* C2 (amended) - an item that was Imported in a written checkpoint is
\* never Pending afterwards, neither in the checkpoint nor in
\* channelStatuses, and inside one run an Imported item stays Imported.
C2_NoRegression ==
    /\ [](\A c \in ckptImported :
            /\ c \notin PendingIds(channelStatuses)
            /\ c \notin PendingIds(CheckpointStatuses))
    /\ [][(pc \in {"open", "write", "loop", "save"}) =>
            ImportedIds(channelStatuses) \subseteq ImportedIds(channelStatuses')]_vars

C2_Witness ==
    /\ pc = "done"
    /\ ~fresh
    /\ ckptImported # {}
    /\ ckptImported \subseteq ImportedIds(channelStatuses)
    /\ PendingIds(channelStatuses) # {}

\* C3 - snapshot freeze: once the first run has listed the source and
\* written the checkpoint, the plan of every later run has the channel
\* identifiers of that listing, in that order.
C3_SnapshotFreeze ==
    (snapshot.written /\ pc \in {"loop", "save", "done"}) =>
        Ids(channelStatuses) = snapshot.ids

\* the target already held every channel the run asked for
AllDuplicate == \A j \in DOMAIN calls : calls[j].outcome = "subscriptionDuplicate"

CalledIds == {startStatuses[calls[j].index].Channel : j \in DOMAIN calls}

\* C4 (as stated) - re-running on a state with an Imported item against a
\* target that answers duplicate leaves the Imported set unchanged and
\* does not change the target.
C4_IdempotentAsStated ==
    (AfterLoop /\ ImportedIds(startStatuses) # {} /\ AllDuplicate) =>
        /\ ImportedIds(channelStatuses) = ImportedIds(startStatuses)
        /\ target = startTarget

\* C4 (amended) - such a re-run keeps every Imported item Imported, sends
\* no insert for it, does not change the target, and adds to the Imported
\* set exactly the Pending items that were answered duplicate.
C4_Idempotent ==
    (AfterLoop /\ ImportedIds(startStatuses) # {} /\ AllDuplicate) =>
        /\ ImportedIds(startStatuses) \subseteq ImportedIds(channelStatuses)
        /\ \A j \in DOMAIN calls : ~startStatuses[calls[j].index].Imported
        /\ ImportedIds(channelStatuses) = ImportedIds(startStatuses) \cup CalledIds
        /\ target = startTarget

C4_Witness ==
    /\ pc = "done"
    /\ ImportedIds(startStatuses) # {}
    /\ AllDuplicate
    /\ calls # <<>>

\* C5 - a checkpoint that is present but does not decode is fatal: the
\* run stops before any insert and does not write the checkpoint.
C5_MalformedCheckpointFatal ==
    decodeErr =>
        /\ pc = "fatal"
        /\ calls = <<>>
        /\ lastWrite.n = 0


\* every item of the checkpoint is Imported and the target account holds
\* every channel of the listing
Converged ==
    /\ snapshot.set
    /\ file.exists
    /\ PendingIds(CheckpointStatuses) = {}
    /\ Range(snapshot.ids) \subseteq target

\* C6 - convergence: with repeated invocations and inserts that are
\* eventually granted, eventually every item of the snapshot is Imported
\* in the checkpoint, stays so, and the target holds every channel.
C6_Convergence == <>[]Converged

\* C7 - a run that went through the loop ends with a writeStatusesToFile
\* call on the final channelStatuses, halted or not; when that write
\* succeeded the checkpoint reads back as channelStatuses.
C7_FinalWrite ==
    pc = "done" =>
        /\ lastWrite.n >= 1
        /\ lastWrite.arg = channelStatuses
        /\ ~lastWrite.err =>
              /\ file.exists
              /\ GobDecode(file.data, <<>>) = [err |-> FALSE, value |-> channelStatuses]

C7_Witness ==
    /\ pc = "done"
    /\ halted
    /\ ~lastWrite.err
    /\ ImportedIds(channelStatuses) # {}

\* C8 - round trip: what a load reads is what the last successful save
\* was given (length, order, identifiers, statuses), run after run.
C8_RoundTrip ==
    /\ (file.exists /\ GobComplete(file.data)) =>
          GobDecode(file.data, <<>>) = [err |-> FALSE, value |-> saved]
    /\ (pc \in {"loop", "save"} /\ ~fresh /\ ~decodeErr) => startStatuses = saved

C8_Witness ==
    /\ pc = "loop"
    /\ ~fresh
    /\ ~decodeErr
    /\ ImportedIds(startStatuses) # {}
    /\ PendingIds(startStatuses) # {}
    /\ Len(startStatuses) = 3

AllSuccess == \A j \in DOMAIN calls : calls[j].outcome = "success"

\* C9 - fresh start: no checkpoint, N channels listed, every insert
\* succeeds and the writes succeed: after the run the checkpoint holds
\* those N channels in listing order, all Imported, outcome Completed.
C9_FreshStart ==
    (pc = "done" /\ fresh /\ AllSuccess /\ ~lastWrite.err) =>
        /\ CheckpointStatuses =
              [i \in DOMAIN snapshot.ids |-> ChannelImportStatus(snapshot.ids[i], TRUE)]
        /\ ~GobDecode(file.data, <<>>).err
        /\ Outcome = "Completed"

C9_Witness ==
    /\ pc = "done"
    /\ fresh
    /\ AllSuccess
    /\ ~lastWrite.err
    /\ Len(calls) = 3

\* C10 - a failed listing on a first run ends the run before any insert
\* and before any write: no checkpoint exists afterwards.
C10_FetchFailureAborts ==
    fetchErr =>
        /\ pc = "fatal"
        /\ calls = <<>>
        /\ lastWrite.n = 0
        /\ ~file.exists
        /\ channelStatuses = <<>>

C10_Witness ==
    /\ fetchErr
    /\ pc = "fatal"
    /\ source # <<>>

\* the last insert request of this run
LastCall == calls[Len(calls)]

\* this step sent an insert request that was answered with outcome
Answered(outcome) ==
    /\ Len(calls') = Len(calls) + 1
    /\ calls'[Len(calls')].outcome = outcome

\* C11 - once the loop is entered no insert outcome makes the process
\* fail: every iteration goes on with the loop or to the final write, and
\* the final write is followed by exit status 0, halted or not.
C11_InsertOutcomesNeverFail ==
    /\ [][MainImport => pc' \in {"loop", "save"}]_vars
    /\ [][MainWriteFinal => ExitCode' = 0]_vars
    /\ [](calls # <<>> => pc \in {"loop", "save", "done", "killed"})

C11_Witness ==
    /\ ExitCode = 0
    /\ halted
    /\ \E j \in DOMAIN calls : calls[j].outcome = "other"
    /\ \E j \in DOMAIN calls : calls[j].outcome = "subscriptionDuplicate"

\* C12 - a failed writeStatusesToFile, after the plan is built or at the
\* end of the run, is shown to the user and does not crash the run.
C12_WriteErrorsReported ==
    lastWrite.err => (reported /\ pc # "panic")

\* C13 - a Pending item whose insert is answered subscriptionDuplicate is
\* set to Imported and the loop moves to the next item, as on success.
C13_DuplicateMarksImported ==
    [][\A o \in {"success", "subscriptionDuplicate"} :
          Answered(o) =>
            /\ channelStatuses' = [channelStatuses EXCEPT ![index].Imported = TRUE]
            /\ ~channelStatuses[index].Imported
            /\ index' = index + 1
            /\ pc' = LoopPc(channelStatuses, index + 1)
            /\ ~halted'
            /\ (o = "subscriptionDuplicate" => target' = target)]_vars

C13_Witness ==
    /\ pc = "loop"
    /\ calls # <<>>
    /\ LastCall.outcome = "subscriptionDuplicate"
    /\ index = LastCall.index + 1
    /\ channelStatuses[LastCall.index].Imported

\* C14 - an insert answered with another error leaves the item Pending
\* and the loop goes on; the plan of the next run holds the item as
\* Pending, and a loop that runs to its end sends an insert for every item
\* that was Pending in its plan.
C14_OtherErrorRetried ==
    /\ \A j \in DOMAIN calls :
          calls[j].outcome = "other" =>
            /\ ~channelStatuses[calls[j].index].Imported
            /\ index > calls[j].index
            /\ j = Len(calls) => ~halted
    /\ (~fresh /\ pc \in {"loop", "save"} /\ calls = <<>>) =>
          prev.other \subseteq PendingIds(channelStatuses)
    /\ (AfterLoop /\ ~halted) => PendingIds(startStatuses) \subseteq CalledIds

\* C15 - an item becomes Imported only in the iteration that sent its
\* insert and got success or subscriptionDuplicate; every item that is
\* Imported in channelStatuses or in the checkpoint had such an answer
\* and the target holds its channel.
C15_ImportedOnlyByGrant ==
    /\ [](ImportedIds(channelStatuses) \cup ImportedIds(CheckpointStatuses)
            \subseteq granted \cap target)
    /\ [][\A i \in DOMAIN channelStatuses :
            (pc = "loop" /\ ~channelStatuses[i].Imported
                /\ channelStatuses'[i].Imported) =>
              /\ i = index
              /\ Answered("success") \/ Answered("subscriptionDuplicate")
              /\ calls'[Len(calls')].index = i]_vars

C15_Witness ==
    /\ pc = "done"
    /\ ImportedIds(CheckpointStatuses) # {}
    /\ \E j \in DOMAIN calls : calls[j].outcome = "other"
    /\ \E j \in DOMAIN calls : calls[j].outcome = "success"

\* C16 - an item that is Imported when the loop reaches it is skipped
\* with no insert request, so no run sends an insert for an item that was
\* Imported in its plan or in an earlier written checkpoint.
C16_ImportedNeverRequested ==
    /\ [](\A j \in DOMAIN calls : ~startStatuses[calls[j].index].Imported)
    /\ []((pc \in {"loop", "save"}) => CalledIds \cap ckptImported = {})
    /\ [][(pc = "loop" /\ channelStatuses[index].Imported) =>
            (calls' = calls /\ target' = target)]_vars

C16_Witness ==
    /\ pc = "done"
    /\ ~fresh
    /\ ImportedIds(startStatuses) # {}
    /\ calls # <<>>
    /\ Len(startStatuses) = 3

\* the channel of the j-th insert request of this run
CallChannel(j) == channelStatuses[calls[j].index].Channel

\* C17 - within one run the insert requests go in plan order: each step
\* sends at most one, for the element the loop stands on, and the requests
\* sent so far are for strictly increasing positions and different
\* channels, so no item gets two requests in one run.
C17_InsertsInPlanOrder ==
    /\ [](\A j, k \in DOMAIN calls :
            j < k => /\ calls[j].index < calls[k].index
                     /\ CallChannel(j) # CallChannel(k))
    /\ [](\A j \in DOMAIN calls :
            calls[j].index <= index /\ calls[j].index \in DOMAIN channelStatuses)
    /\ [][calls' # calls =>
            \/ calls' = <<>>
            \/ /\ pc = "loop"
               /\ calls' = Append(calls, calls'[Len(calls')])
               /\ calls'[Len(calls')].index = index
               /\ index' >= index]_vars

C17_Witness ==
    /\ pc = "done"
    /\ Len(calls) = 3
    /\ calls[1].outcome = "other"
    /\ calls[2].outcome = "success"
    /\ calls[3].index = 3

\* the statuses from position i on
Rest(statuses, i) == [j \in {k \in DOMAIN statuses : k >= i} |-> statuses[j]]

\* C18 - an insert answered quotaExceeded is the last request of its run:
\* the loop is left at once for the final write with the halt flag set,
\* the item and every later item keep the status they had in the plan, and
\* nothing after that step changes the requests, the statuses or the flag
\* until the run is over.
C18_QuotaStopsTheRun ==
    /\ [](\A j \in DOMAIN calls :
            calls[j].outcome = "quotaExceeded" =>
              /\ j = Len(calls)
              /\ Outcome = "HaltedOnQuota"
              /\ pc \in {"save", "done", "killed"}
              /\ index = calls[j].index
              /\ ~channelStatuses[calls[j].index].Imported
              /\ Rest(channelStatuses, calls[j].index)
                    = Rest(startStatuses, calls[j].index))
    /\ [](halted <=> (calls # <<>> /\ LastCall.outcome = "quotaExceeded"))
    /\ [][Answered("quotaExceeded") =>
            (channelStatuses' = channelStatuses /\ target' = target
               /\ pc' = "save")]_vars
    /\ [][(halted /\ pc = "save") =>
            (calls' = calls /\ channelStatuses' = channelStatuses
               /\ target' = target /\ halted')]_vars

C18_Witness ==
    /\ pc = "done"
    /\ halted
    /\ Len(calls) = 2
    /\ calls[1].outcome = "success"
    /\ LastCall.index = 2
    /\ Len(channelStatuses) = 3
    /\ ~channelStatuses[3].Imported

\* the positions of the Pending items
PendingAt(statuses) == {i \in DOMAIN statuses : ~statuses[i].Imported}

\* the earliest Pending item in plan order
FirstPending(statuses) ==
    CHOOSE i \in PendingAt(statuses) : \A j \in PendingAt(statuses) : i <= j

\* C19 - a run resumes at the first Pending item of the checkpoint it
\* loaded: until the final write replaces the checkpoint, the first insert
\* request of the run is for the earliest item the checkpoint holds as
\* Pending, and a loop that has ended on a checkpoint with a Pending item
\* has sent that request; the run after a quota halt is such a run.
C19_ResumeAtFirstPending ==
    (pc \in {"loop", "save"}) =>
        /\ calls # <<>> =>
              /\ PendingAt(CheckpointStatuses) # {}
              /\ calls[1].index = FirstPending(CheckpointStatuses)
              /\ CallChannel(1) = CheckpointStatuses[calls[1].index].Channel
        /\ (pc = "save" /\ PendingAt(CheckpointStatuses) # {}) => calls # <<>>
        /\ (calls = <<>> /\ PendingAt(CheckpointStatuses) # {}) =>
              index <= FirstPending(CheckpointStatuses)

C19_Witness ==
    /\ prev.halted
    /\ prev.other = {2}
    /\ ~fresh
    /\ Len(calls) = 1
    /\ calls[1].index = 2
    /\ CheckpointStatuses[1].Imported
    /\ Len(CheckpointStatuses) = 3

\* the TransferState built from a listing: one Pending status per channel
AllPending(ids) == [i \in DOMAIN ids |-> ChannelImportStatus(ids[i], FALSE)]

\* the checkpoint is there, decodes without error and holds statuses
Loads(statuses) ==
    /\ file.exists
    /\ ~GobDecode(file.data, <<>>).err
    /\ CheckpointStatuses = statuses

\* C20 (as stated) - on a first run a termination at any point between the
\* build of the all-Pending state and the first insert request leaves a
\* loadable checkpoint with every listed item Pending.
C20_CrashLeavesCheckpointAsStated ==
    (fresh /\ ~fetchErr /\ calls = <<>> /\ pc = "killed") =>
        Loads(AllPending(snapshot.ids))

\* C20 - on a first run the listing is taken once and the state built from
\* it has every listed item Pending; no insert request is sent before
\* writeStatusesToFile has written that state, and a failed write ends the
\* run without a request; from the return of that write to the first
\* insert request, also when the process is terminated there, the
\* checkpoint loads as the listed items, all Pending.
C20_FirstRunCheckpoint ==
    /\ []((fresh /\ pc \in {"write", "loop", "save"}) =>
            /\ Ids(channelStatuses) = snapshot.ids
            /\ (calls = <<>> => channelStatuses = AllPending(snapshot.ids)))
    /\ []((fresh /\ pc = "write") => (calls = <<>> /\ ~snapshot.written))
    /\ []((fresh /\ calls # <<>>) => snapshot.written)
    /\ []((fresh /\ pc = "panic") => (calls = <<>> /\ lastWrite.err))
    /\ []((fresh /\ snapshot.written /\ calls = <<>>
            /\ pc \in {"loop", "save", "killed"}) =>
              Loads(AllPending(snapshot.ids)))
    /\ [][(fresh /\ pc \in {"write", "loop", "save"}) =>
            snapshot'.ids = snapshot.ids]_vars

C20_Witness ==
    /\ fresh
    /\ pc = "killed"
    /\ snapshot.written
    /\ calls = <<>>
    /\ Len(snapshot.ids) = 3
    /\ source # snapshot.ids

\* the channels this run holds as Imported and the checkpoint does not
Unsaved == ImportedIds(channelStatuses) \ ImportedIds(CheckpointStatuses)

\* C21 - when the process is terminated in the middle of a run, the
\* checkpoint misses the outcome of at most one item of that run, and an
\* insert request for a channel the target already held at the start of a
\* run is never answered as a new subscription.
C21_CrashLosesAtMostOneItem ==
    /\ pc = "killed" => Cardinality(Unsaved) <= 1
    /\ \A j \in DOMAIN calls :
          CallChannel(j) \in startTarget => calls[j].outcome # "success"

\* C22 - a save is atomic: whatever a writeStatusesToFile call did, ended
\* by an error or not, after a quota halt or not, a checkpoint that is
\* there loads as the statuses of the last save that completed, never as
\* an empty or partial one.
C22_SaveAtomic ==
    file.exists => Loads(saved)

\* C23 - when a run has ended and its loop was not left on quota, the
\* statuses it handed to the final save, and the checkpoint when that save
\* succeeded, hold as Pending only items whose insert request of this run
\* was answered with an error other than duplicate and quotaExceeded; with
\* no such answer every item is Imported.
C23_CompletedLeavesOnlyFailed ==
    (pc = "done" /\ Outcome = "Completed") =>
        /\ lastWrite.arg = channelStatuses
        /\ PendingIds(channelStatuses) = OtherIds
        /\ OtherIds = {} => \A i \in DOMAIN channelStatuses : channelStatuses[i].Imported
        /\ ~lastWrite.err =>
              /\ Loads(channelStatuses)
              /\ PendingIds(CheckpointStatuses) \subseteq OtherIds

C23_Witness ==
    /\ pc = "done"
    /\ Outcome = "Completed"
    /\ ~lastWrite.err
    /\ Len(calls) = 2
    /\ PendingIds(CheckpointStatuses) = {2}
    /\ ImportedIds(CheckpointStatuses) = {1, 3}
    /\ ImportedIds(startStatuses) = {1}

====
